---------------------------- MODULE Spec2Model ----------------------------
(***************************************************************************)
(* QShortcutEditor (src/QShortcutEditor.py): a widget that lists the       *)
(* QActions found under a host window, lets the user rebind the primary    *)
(* and the alternate shortcut of an action through a QKeySequenceEdit put  *)
(* in a table cell, and reports (pickle) or restores (unpickle) the        *)
(* bindings that differ from the snapshot taken at construction.           *)
(*                                                                         *)
(* Toolkit objects are modelled at the interface the source uses:          *)
(*   - a QAction is an identity in Actions with a toolTip, a statusTip and *)
(*     a list of shortcuts; setShortcuts(l) stores l, shortcuts() reads it *)
(*     back as a fresh list;                                               *)
(*   - a QKeySequence is a non-empty key sequence, an element of Keys;     *)
(*     its string form is a sequence of character codes (TLC cannot order  *)
(*     its own strings), so that Python's ordering of str and of list can  *)
(*     be computed;                                                        *)
(*   - QTableWidget.clearContents() resets the table model, which releases *)
(*     every cell widget of the view (the pending QKeySequenceEdit).       *)
(***************************************************************************)
EXTENDS Integers, Sequences, FiniteSets, TLC

\* Number of distinct key sequences the user can capture.
NumKeys == 2
\* Longest binding list an action has when a display is checked on its own.
MaxShortcuts == 2
\* Longest list of string forms held by an entry of a restore mapping.
MaxDbLen == 2

\* The QAction objects owned by the host window, named as in the demo program
Actions == { "action_view", "action_edit" }
\* gui.findChildren(QAction) meets them in the order they were created
Discovery == << "action_view", "action_edit" >>
Keys == 1 .. NumKeys

\* self.columns = ['Shortcut', 'Alternate', 'Description'], as 0-based indexes
ColShortcut == 0
ColDescription == 2
Columns == ColShortcut .. ColDescription

\* Python's None, and Some(v), for the single-slot holder currently_modifying
None == << >>
Some(v) == << v >>

Range(s) == { s[i] : i \in DOMAIN s }

\* Lists over S of length at most n
SeqsUpTo(S, n) == UNION { [1 .. m -> S] : m \in 0 .. n }

VARIABLES
    toolTip,              \* action -> label (QAction.toolTip())
    statusTip,            \* action -> status description (QAction.statusTip())
    children,             \* what gui.findChildren(QAction) enumerates, in order
    shortcuts,            \* action -> its live binding list (QAction.shortcuts())
    shortcuts0,           \* history: each action's binding list at construction
    checked,              \* display_all_actions.isChecked()
    shown,                \* whether _prepare() has run (self._actions exists)
    _actions,             \* the displayed list, one table row per entry
    cellWidgets,          \* the cells (row, column) holding a live QKeySequenceEdit
    currently_modifying,  \* None or Some((action, x, column))
    _initial_shortcuts,   \* identity -> binding list, the diff baseline
    restored,             \* history: None or Some(the arguments of unpickle)
    lastOp                \* the handler that last changed the editor or an action

vars == << toolTip, statusTip, children, shortcuts, shortcuts0, checked, shown,
           _actions, cellWidgets, currently_modifying, _initial_shortcuts, restored,
           lastOp >>

-----------------------------------------------------------------------------
(* Strings and key sequences *)

\* QKeySequence.toString(), as character codes: keys 1, 3, 5.. are "F1", "F2",
\* "F3"..; keys 2, 4.. are "Ctrl+F1", "Ctrl+F2"..  (70 is "F", 48 is "0",
\* 67 116 114 108 43 is "Ctrl+").  The order of the string forms is not the
\* order of the key values.
toString(k) ==
    IF k % 2 = 1 THEN << 70, 48 + (k + 1) \div 2 >>
                 ELSE << 67, 116, 114, 108, 43, 70, 48 + k \div 2 >>

\* str.lower() on character codes
Lower(s) == [ i \in DOMAIN s |-> IF s[i] \in 65 .. 90 THEN s[i] + 32 ELSE s[i] ]

\* QKeySequence(str): parsing is case-insensitive ("f1" is the key "F1")
fromString(s) == CHOOSE k \in Keys : Lower(toString(k)) = Lower(s)

\* [ x.toString() for x in shorts ]
Strings(shorts) == [ i \in DOMAIN shorts |-> toString(shorts[i]) ]

\* setShortcuts(list of str): each string is converted to a QKeySequence
Parsed(strs) == [ i \in DOMAIN strs |-> fromString(strs[i]) ]

\* Python's < on two str: the first differing character decides, a proper
\* prefix is smaller.
RECURSIVE StrLessFrom(_, _, _)
StrLessFrom(s, t, i) ==
    IF i > Len(t) THEN FALSE
    ELSE IF i > Len(s) THEN TRUE
    ELSE IF s[i] < t[i] THEN TRUE
    ELSE IF t[i] < s[i] THEN FALSE
    ELSE StrLessFrom(s, t, i + 1)

StrLess(s, t) == StrLessFrom(s, t, 1)

\* Python's < on two lists of str, the same rule one level up
RECURSIVE StrListLessFrom(_, _, _)
StrListLessFrom(u, v, i) ==
    IF i > Len(v) THEN FALSE
    ELSE IF i > Len(u) THEN TRUE
    ELSE IF StrLess(u[i], v[i]) THEN TRUE
    ELSE IF StrLess(v[i], u[i]) THEN FALSE
    ELSE StrListLessFrom(u, v, i + 1)

StrListLess(u, v) == StrListLessFrom(u, v, 1)

-----------------------------------------------------------------------------------------------------------------------------------------------------
(* The methods' computations *)

\* Mutant of _hash: the object itself is in the identity
_hashByObject(a) == << toolTip[a], a >>

\* QShortcutEditor._hash: the identity of an action for the diff and the restore
_hash(a) == << toolTip[a], statusTip[a] >>

\* QShortcutEditor._all_actions: the candidates, in discovery order; chk is the
\* state of the 'All' checkbox and sc the binding lists when it runs
_all_actions(chk, sc) ==
    LET Keep(a) == IF chk THEN toolTip[a] # "" ELSE Len(sc[a]) > 0
    IN  SelectSeq(children, Keep)

\* Mutant of ListOfSet: the list is taken as it is, no set is built
ListAsIs(xs) == { xs }

\* list(set(xs)): the elements of xs, each once, in the iteration order of a
\* Python set of objects, which hashes them by address: any order is possible
ListOfSet(xs) ==
    LET S == Range(xs)
    IN  { p \in [1 .. Cardinality(S) -> S] : Range(p) = S }

\* Mutant of SortKey: only the primary shortcut is in the key
PrimaryOnly(shorts) == IF shorts = << >> THEN << >> ELSE << toString(shorts[1]) >>

\* the sort key of _uniq_sort: [ x.toString() for x in act.shortcuts() ]
SortKey(shorts) == Strings(shorts)

\* whether a sorts strictly before b
KeyLess(sc, a, b) == StrListLess(SortKey(sc[a]), SortKey(sc[b]))

\* list.sort(key=..) is stable: each element goes behind every element that does
\* not sort strictly after it
Insert(sorted, a, sc) ==
    LET After == { i \in DOMAIN sorted : KeyLess(sc, a, sorted[i]) }
        at == IF After = {} THEN Len(sorted) + 1
              ELSE CHOOSE i \in After : \A j \in After : i <= j
    IN  SubSeq(sorted, 1, at - 1) \o << a >> \o SubSeq(sorted, at, Len(sorted))

RECURSIVE SortFrom(_, _, _, _)
SortFrom(xs, i, sorted, sc) ==
    IF i > Len(xs) THEN sorted
    ELSE SortFrom(xs, i + 1, Insert(sorted, xs[i], sc), sc)

\* actions2.sort(key=lambda act: [ x.toString() for x in act.shortcuts() ])
Sort(xs, sc) == SortFrom(xs, 1, << >>, sc)

\* QShortcutViewer._uniq_sort: the lists it can leave in self._actions
_uniq_sort(xs, sc) == { Sort(order, sc) : order \in ListOfSet(xs) }

\* The dict comprehension of __init__: one entry per identity of a labelled
\* action; of two actions with one identity the later one in the list stays.
InitialShortcuts(sc) ==
    LET labelled == SelectSeq(children, LAMBDA a : toolTip[a] # "")
        Last(h) == CHOOSE i \in DOMAIN labelled :
                       /\ _hash(labelled[i]) = h
                       /\ \A j \in DOMAIN labelled :
                              _hash(labelled[j]) = h => j <= i
    IN  [ h \in { _hash(labelled[i]) : i \in DOMAIN labelled } |->
              sc[labelled[Last(h)]] ]

\* Mutant of SetOrAppend: the new key sequence is always appended
AlwaysAppend(shorts, column, new_short) == Append(shorts, new_short)

\* shorts[column] = new_short, and shorts.append(new_short) on IndexError
SetOrAppend(shorts, column, new_short) ==
    IF column < Len(shorts) THEN [ shorts EXCEPT ![column + 1] = new_short ]
                            ELSE Append(shorts, new_short)

\* QShortcutEditor.pickle over the displayed list acts: the loop from row i on,
\* with db built so far.  raised: self._initial_shortcuts[h] raised KeyError,
\* which pickle does not catch (no mapping is returned then).
RECURSIVE pickleFrom(_, _, _, _)
pickleFrom(acts, sc, i, db) ==
    IF i > Len(acts) THEN [ raised |-> FALSE, db |-> db ]
    ELSE LET a == acts[i]
             h == _hash(a)
         IN  IF h \notin DOMAIN _initial_shortcuts
             THEN [ raised |-> TRUE, db |-> << >> ]
             ELSE IF sc[a] # _initial_shortcuts[h]
                  THEN pickleFrom(acts, sc, i + 1, (h :> Strings(sc[a])) @@ db)
                  ELSE pickleFrom(acts, sc, i + 1, db)

pickle(acts, sc) == pickleFrom(acts, sc, 1, << >>)

\* Mutant of Restore: a missing entry is read as an empty list (db.get(h, []))
RestoreOrClear(sc, a, db) ==
    [ sc EXCEPT ![a] = IF _hash(a) \in DOMAIN db THEN Parsed(db[_hash(a)])
                                                 ELSE << >> ]

\* Mutant of Restore: the restored bindings are added to the live ones
RestoreExtend(sc, a, db) ==
    IF _hash(a) \in DOMAIN db THEN [ sc EXCEPT ![a] = sc[a] \o Parsed(db[_hash(a)]) ]
                              ELSE sc

\* The body of unpickle's loop for one action: a.setShortcuts(db[h]), and a
\* KeyError passed over
Restore(sc, a, db) ==
    IF _hash(a) \in DOMAIN db THEN [ sc EXCEPT ![a] = Parsed(db[_hash(a)]) ]
                              ELSE sc

\* QShortcutEditor.unpickle: the loop over actions from position i on
RECURSIVE unpickleFrom(_, _, _, _)
unpickleFrom(sc, actions, db, i) ==
    IF i > Len(actions) THEN sc
    ELSE unpickleFrom(Restore(sc, actions[i], db), actions, db, i + 1)

unpickle(sc, actions, db) == unpickleFrom(sc, actions, db, 1)

-----------------------------------------------------------------------------
(* The host window at construction *)

\* (toolTip, statusTip) of an action: unlabelled, labelled, labelled with a
\* status description
Identities == { << "", "" >>, << "Open", "" >>, << "Open", "Open a file" >> }

\* findChildren: every action once, or one of them met a second time
ChildLists == { Discovery } \cup { Append(Discovery, a) : a \in Actions }

\* The binding lists an action starts a session with: none, a primary one, a
\* primary and an alternate one
StartBindings == { << >>, << 1 >>, << 1, 2 >> }

\* The restore mappings given to unpickle: string forms as pickle writes them,
\* and a hand-written lower-case one
DbStrings == { toString(k) : k \in Keys } \cup { Lower(toString(1)) }
DbLists == SeqsUpTo(DbStrings, MaxDbLen)
Dbs == { << >> } \cup { h :> l : h \in Identities, l \in DbLists }

\* The lists of actions given to unpickle: some of the actions, in discovery
\* order
ActionLists == { SelectSeq(Discovery, LAMBDA a : a \in S) : S \in SUBSET Actions }

\* The state QShortcutEditor.__init__ leaves, given the host window
Constructed ==
    /\ shortcuts0 = shortcuts
    /\ checked = FALSE
    /\ shown = FALSE
    /\ _actions = << >>
    /\ cellWidgets = {}
    /\ currently_modifying = None
    /\ _initial_shortcuts = InitialShortcuts(shortcuts)
    /\ restored = None
    /\ lastOp = "__init__"

Labelled ==
    \E id \in [Actions -> Identities] :
        /\ toolTip = [ a \in Actions |-> id[a][1] ]
        /\ statusTip = [ a \in Actions |-> id[a][2] ]

\* An editing or restoring session: the window as findChildren really returns it
Init ==
    /\ Labelled
    /\ children = Discovery
    /\ shortcuts \in [Actions -> StartBindings]
    /\ Constructed

\* A display on its own: any binding lists, and candidate lists that hold an
\* action twice
InitDisplay ==
    /\ Labelled
    /\ children \in ChildLists
    /\ shortcuts \in [Actions -> SeqsUpTo(Keys, MaxShortcuts)]
    /\ Constructed

-----------------------------------------------------------------------------
(* The handlers *)

\* QShortcutViewer._prepare with the checkbox at chk and the bindings at sc:
\* _all_actions, _uniq_sort, then the table is cleared and rebuilt
_prepare(chk, sc) ==
    /\ _actions' \in _uniq_sort(_all_actions(chk, sc), sc)
    /\ cellWidgets' = {}
    /\ shown' = TRUE

\* QShortcutViewer.show
Show ==
    /\ _prepare(checked, shortcuts)
    /\ lastOp' = "show"
    /\ UNCHANGED << toolTip, statusTip, children, shortcuts, shortcuts0, checked,
                    currently_modifying, _initial_shortcuts, restored >>

\* display_all_actions.toggled -> _prepare
Toggled ==
    /\ shown
    /\ checked' = ~checked
    /\ _prepare(~checked, shortcuts)
    /\ lastOp' = "toggled"
    /\ UNCHANGED << toolTip, statusTip, children, shortcuts, shortcuts0,
                    currently_modifying, _initial_shortcuts, restored >>

\* Mutant of Modifying: the guard is left out
ModifyingUnchecked == FALSE

\* the guard of modify_shortcut: we're currently modifying another one
Modifying == currently_modifying # None

\* table.cellDoubleClicked -> modify_shortcut(row, column), rows from 0; both
\* early returns leave the editor as it is
modify_shortcut(row, column) ==
    /\ shown
    /\ row \in 0 .. Len(_actions) - 1
    /\ column \in Columns
    /\ IF column = ColDescription \/ Modifying
       THEN UNCHANGED << currently_modifying, cellWidgets, lastOp >>
       ELSE /\ currently_modifying' =
                   Some([ action |-> _actions[row + 1],
                          x |-> << row, column >>,
                          column |-> column - ColShortcut ])
            /\ cellWidgets' = cellWidgets \cup { << row, column >> }
            /\ lastOp' = "modify_shortcut"
    /\ UNCHANGED << toolTip, statusTip, children, shortcuts, shortcuts0, checked,
                    shown, _actions, _initial_shortcuts, restored >>

\* x.editingFinished -> modify_shortcut_end, x a live editor that captured
\* the key sequence new_short
modify_shortcut_end(new_short) ==
    /\ cellWidgets # {}
    /\ IF currently_modifying = None
       THEN \* unpacking None raises TypeError
            /\ lastOp' = "modify_shortcut_end: TypeError"
            /\ UNCHANGED << shortcuts, checked, shown, _actions, cellWidgets,
                            currently_modifying >>
       ELSE LET cm == currently_modifying[1]
                shorts == SetOrAppend(shortcuts[cm.action], cm.column, new_short)
                sc == [ shortcuts EXCEPT ![cm.action] = shorts ]
            IN  /\ shortcuts' = sc
                /\ _prepare(checked, sc)
                /\ currently_modifying' = None
                /\ lastOp' = "modify_shortcut_end"
                /\ UNCHANGED checked
    /\ UNCHANGED << toolTip, statusTip, children, shortcuts0, _initial_shortcuts,
                    restored >>

\* the signal of the pending editor, whatever it captured
editingFinished == \E new_short \in Keys : modify_shortcut_end(new_short)

\* button_print.clicked -> print(self.pickle()): nothing of the editor changes
print_shortcuts ==
    /\ shown
    /\ pickle(_actions, shortcuts).raised \in BOOLEAN
    /\ UNCHANGED vars

\* editor.unpickle(actions, db), called as the demo program does: once, before
\* the editor is shown; the table is not refreshed
Unpickle(actions, db) ==
    /\ lastOp = "__init__"
    /\ shortcuts' = unpickle(shortcuts, actions, db)
    /\ restored' = Some([ actions |-> actions, db |-> db ])
    /\ lastOp' = "unpickle"
    /\ UNCHANGED << toolTip, statusTip, children, shortcuts0, checked, shown,
                    _actions, cellWidgets, currently_modifying,
                    _initial_shortcuts >>

\* The editing session
Next ==
    \/ Show
    \/ Toggled
    \/ \E row \in 0 .. Cardinality(Actions), column \in Columns :
           modify_shortcut(row, column)
    \/ editingFinished
    \/ print_shortcuts

Spec == Init /\ [][Next]_vars

\* The restore at startup, then the display and the diff
NextRestore ==
    \/ \E actions \in ActionLists, db \in Dbs : Unpickle(actions, db)
    \/ Show
    \/ print_shortcuts

SpecRestore == Init /\ [][NextRestore]_vars

\* The display on its own
NextDisplay ==
    \/ Show
    \/ Toggled

SpecDisplay == InitDisplay /\ [][NextDisplay]_vars

-----------------------------------------------------------------------------
(* The editing session: the single edit slot and the rebind *)

\* C2: at most one key-sequence editor is pending in every reachable state, and
\* a double-click on any cell while currently_modifying is not None leaves
\* currently_modifying, the cell editors and every action's bindings unchanged.
C2_SingleEditSlot ==
    /\ [](Cardinality(cellWidgets) <= 1)
    /\ [][ \A row \in 0 .. Cardinality(Actions), column \in Columns :
               (currently_modifying # None /\ modify_shortcut(row, column))
                   => UNCHANGED << currently_modifying, cellWidgets, shortcuts >>
         ]_vars

\* C2's case: an edit is pending in one cell while the table shows another row
\* whose cells can be double-clicked.
C2_Witness ==
    /\ currently_modifying # None
    /\ Cardinality(cellWidgets) = 1
    /\ Len(_actions) >= 2
    /\ ENABLED (\E row \in 0 .. Cardinality(Actions) :
                    /\ << row, ColShortcut >> \notin cellWidgets
                    /\ modify_shortcut(row, ColShortcut))

\* C8: an edit of position p of an action with n bindings that completes with
\* the key sequence k replaces position p when p < n, the length and the other
\* positions staying as they were, and appends k when p >= n; the bindings of
\* every other action stay as they were.
C8_Rebind ==
    [][ \A k \in Keys :
            (currently_modifying # None /\ modify_shortcut_end(k)) =>
                LET a == currently_modifying[1].action
                    p == currently_modifying[1].column
                    old == shortcuts[a]
                    new == shortcuts'[a]
                    n == Len(old)
                IN  /\ p < n => /\ Len(new) = n
                                /\ new[p + 1] = k
                                /\ \A i \in 1 .. n : i # p + 1 => new[i] = old[i]
                    /\ p >= n => new = Append(old, k)
                    /\ \A b \in Actions \ { a } : shortcuts'[b] = shortcuts[b]
      ]_vars

\* C8's case: an edit has just completed, and some action that started with a
\* primary and an alternate binding has another alternate one now, while
\* another action got a binding appended.
C8_Witness ==
    /\ lastOp = "modify_shortcut_end"
    /\ \E a, b \in Actions :
           /\ Len(shortcuts0[a]) = 2
           /\ Len(shortcuts[a]) = 2
           /\ shortcuts[a][1] = shortcuts0[a][1]
           /\ shortcuts[a][2] # shortcuts0[a][2]
           /\ shortcuts0[b] = << >>
           /\ Len(shortcuts[b]) = 1

\* C10: an edit that has started is eventually completed; the slot
\* currently_modifying is never left occupied for ever.  Only the pending
\* editor's editingFinished empties the slot, so in every reachable state with
\* the slot occupied that signal can still come.
C10_EditIsCompleted ==
    currently_modifying # None => ENABLED editingFinished

-----------------------------------------------------------------------------
(* The diff *)

\* whether no other action has the label and the status description of a
UniqueIdentity(a) ==
    \A b \in Actions \ { a } :
        toolTip[b] # toolTip[a] \/ statusTip[b] # statusTip[a]

\* C1: after a rebind of a displayed action, pickle() returns a mapping that
\* holds the action's identity with the string forms of its new full binding
\* list when the list differs from the original one, and does not hold the
\* identity when the rebind brought the list back to the original one.  Stated
\* for the actions whose identity no other action shares.
C1_RebindThenDiff ==
    [][ \A k \in Keys :
            (currently_modifying # None /\ modify_shortcut_end(k)) =>
                LET a == currently_modifying[1].action
                    h == << toolTip[a], statusTip[a] >>
                    r == pickle(_actions', shortcuts')
                IN  (/\ UniqueIdentity(a)
                     /\ a \in Range(_actions')
                     /\ shortcuts'[a] # shortcuts[a]) =>
                        /\ ~r.raised
                        /\ IF shortcuts'[a] # shortcuts0[a]
                           THEN /\ h \in DOMAIN r.db
                                /\ r.db[h] = Strings(shortcuts'[a])
                           ELSE h \notin DOMAIN r.db
      ]_vars

\* C6: when pickle() meets a displayed action whose identity has no entry in
\* the baseline, it takes the action as not customized and returns its mapping
\* without raising.
C6_MissingBaselineIgnored ==
    shown =>
        LET r == pickle(_actions, shortcuts)
        IN  \A a \in Range(_actions) :
                _hash(a) \notin DOMAIN _initial_shortcuts =>
                    /\ ~r.raised
                    /\ _hash(a) \notin DOMAIN r.db

-----------------------------------------------------------------------------
(* The display: _uniq_sort *)

\* whether the last handler that ran ended with a refresh of the display
Refreshed == lastOp \in { "show", "toggled", "modify_shortcut_end" }

\* the candidates of the refresh that produced the display
Candidates == _all_actions(checked, shortcuts)

\* the place where findChildren first meets a
Discovered(a) == CHOOSE i \in DOMAIN children :
                     children[i] = a /\ \A j \in DOMAIN children : children[j] = a => i <= j

\* the displayed rows ascend by the list of string forms of the bindings, and
\* the rows of the actions without a shortcut come first
Ascending ==
    \A i, j \in DOMAIN _actions :
        i < j => /\ ~StrListLess(Strings(shortcuts[_actions[j]]),
                                 Strings(shortcuts[_actions[i]]))
                 /\ shortcuts[_actions[j]] = << >> => shortcuts[_actions[i]] = << >>

\* C5, as amended: after a refresh the displayed order is ascending by the list
\* of key-sequence string forms of each action, the actions without a shortcut
\* first; nothing is said of the order of two actions with equal lists.
C5_SortedAscending == Refreshed => Ascending

\* C5, as stated: ascending as above and stable, two actions with equal lists
\* of string forms staying in the order of the candidate list.
C5_SortedStable ==
    Refreshed =>
        /\ Ascending
        /\ \A i, j \in DOMAIN _actions :
               (i < j /\ shortcuts[_actions[i]] = shortcuts[_actions[j]])
                   => Discovered(_actions[i]) < Discovered(_actions[j])

\* C5's case: 'All' is checked and the display holds an action without a
\* shortcut above one with a primary and an alternate shortcut.
C5_Witness ==
    /\ lastOp = "toggled"
    /\ checked
    /\ Len(_actions) = 2
    /\ shortcuts[_actions[1]] = << >>
    /\ Len(shortcuts[_actions[2]]) = 2

-----------------------------------------------------------------------------
(* The restore: unpickle *)

\* the diff and restore key of a, from its two text fields
Key(a) == << toolTip[a], statusTip[a] >>

\* C3: unpickle(actions, db) gives every action of the list whose identity is a
\* key of db the bindings db holds for it, and leaves the bindings of every
\* action of the list whose identity is no key of db as they were.
C3_Restore ==
    [][ lastOp' # lastOp /\ lastOp' = "unpickle" =>
            LET actions == restored'[1].actions
                db == restored'[1].db
            IN  \A a \in Range(actions) :
                    IF Key(a) \in DOMAIN db
                    THEN shortcuts'[a] = Parsed(db[Key(a)])
                    ELSE shortcuts'[a] = shortcuts[a]
      ]_vars

\* C3's case: a restore has run on a list with an action whose identity is a
\* key of db, which has new bindings, and an action whose identity is none,
\* which had bindings and still has them.
C3_Witness ==
    /\ lastOp = "unpickle"
    /\ \E a, b \in Range(restored[1].actions) :
           /\ Key(a) \in DOMAIN restored[1].db
           /\ Key(b) \notin DOMAIN restored[1].db
           /\ shortcuts[a] # shortcuts0[a]
           /\ shortcuts0[b] # << >>
           /\ shortcuts[b] = shortcuts0[b]

\* C4: applying unpickle(actions, db) a second time leaves every action with
\* the bindings the first application gave it.
C4_RestoreIdempotent ==
    [][ lastOp' # lastOp /\ lastOp' = "unpickle" =>
            unpickle(shortcuts', restored'[1].actions, restored'[1].db) = shortcuts'
      ]_vars

\* C4's case: a restore has replaced the bindings of an action that had some by
\* two others.
C4_Witness ==
    /\ lastOp = "unpickle"
    /\ \E a \in Range(restored[1].actions) :
           /\ Key(a) \in DOMAIN restored[1].db
           /\ shortcuts0[a] # << >>
           /\ Len(shortcuts[a]) = 2
           /\ shortcuts[a][1] # shortcuts0[a][1]

\* whether a and b are two actions with one label and one status description
Collide(a, b) == a # b /\ toolTip[a] = toolTip[b] /\ statusTip[a] = statusTip[b]

\* the actions that have the label and the status description of a
Sharing(a) == { c \in Actions : toolTip[c] = toolTip[a] /\ statusTip[c] = statusTip[a] }

=============================================================================
